---------------------------- MODULE Spec2Model ----------------------------
(***************************************************************************)
(* RoleMatch AI (src/app.py): a Streamlit script.  Every user interaction  *)
(* re-executes the script top to bottom for that browser session.  The     *)
(* state that survives a script run is the session's st.session_state      *)
(* ("job_df"), the Google spreadsheet "Job Tracker" (one worksheet per     *)
(* sender, the Ledger) and the mail that left through SMTP (the Mailer).   *)
(*                                                                         *)
(* A Python str is modelled as a sequence of text pieces in which "@",     *)
(* "." and "_" are always pieces of their own, so that `"@" in s` and      *)
(* str.replace are computed piece by piece.                                *)
(***************************************************************************)
EXTENDS Integers, Sequences, FiniteSets, TLC

(***************************************************************************)
(* Bounds of the model.                                                    *)
(***************************************************************************)
MaxMails == 2       \* messages handed to the Mailer in one behaviour

Sessions == {1, 2}  \* browser sessions (script-run contexts)

Range(f) == {f[i] : i \in DOMAIN f}

(***************************************************************************)
(* Python values.                                                          *)
(***************************************************************************)
None == <<"<None>">>             \* Python's None, distinct from every str

A_X == <<"a", "@", "x", ".", "com">>
B_Y == <<"b", "@", "y", ".", "com">>
BAD == <<"bad-address">>

\* sender identities typed into "Your Gmail address" (line 97)
V_K == <<"v", ".", "k", "@", "g", ".", "com">>
V__K == <<"v", "_", "k", "@", "g", ".", "com">>
Senders == {V_K, V__K}

\* values the user may type into the "To" field instead of its default
ToEdits == {B_Y}

SHEET_NAME == "Job Tracker"

HEADER == <<"Post ID", "Job Title", "Company", "Contact Email",
            "Status", "Relevance", "Notes", "Date Processed">>

JobFields == {"job_title", "company", "apply_email", "job_type", "location",
              "skills", "jd_summary", "email_subject", "email_body_draft"}

\* str.replace(old, new) for a one-character `old`
replace(s, old, new) == [i \in DOMAIN s |-> IF s[i] = old THEN new ELSE s[i]]

\* line 58: user_email.replace("@", "_").replace(".", "_")
sheet_title(user_email) == replace(replace(user_email, "@", "_"), ".", "_")

Titles == {sheet_title(u) : u \in Senders}

\* dict.get(key) with the default None
get(d, k) == IF k \in DOMAIN d THEN d[k] ELSE None

(***************************************************************************)
(* The Extractor (Gemini, lines 228-237).  A response is the text of       *)
(* response.text; `parses` tells whether json.loads accepts it, `type` and *)
(* `value` are the JSON value it then returns.                             *)
(***************************************************************************)
JA == [job_title |-> <<"Data Engineer">>, company |-> <<"Acme">>,
       apply_email |-> A_X, job_type |-> <<"Full-time">>,
       location |-> <<"Pune">>, skills |-> <<"SQL">>,
       jd_summary |-> <<"Builds pipelines">>,
       email_subject |-> <<"Application for Data Engineer role">>,
       email_body_draft |-> <<"Dear Sir/Mam, ...">>]
JB == [JA EXCEPT !.company = <<"Bolt">>, !.apply_email = B_Y]
JA2 == [JA EXCEPT !.company = <<"Acme Labs">>, !.skills = None]
JBAD == [JA EXCEPT !.company = <<"Crux">>, !.apply_email = BAD]
JPARTIAL == [job_title |-> <<"Analyst">>]    \* schema fields missing

ExtractorResponses ==
    { [parses |-> FALSE, type |-> "text",   value |-> <<>>],
      [parses |-> TRUE,  type |-> "array",  value |-> <<>>],
      [parses |-> TRUE,  type |-> "object", value |-> [error |-> <<"quota">>]],
      [parses |-> TRUE,  type |-> "object", value |-> [jobs |-> <<JA, JBAD, JB, JA2>>]],
      [parses |-> TRUE,  type |-> "object", value |-> [jobs |-> <<JPARTIAL>>]] }

\* lines 236-237: json.loads(response.text) and gemini_output.get("jobs", [])
\* raise on text that is not JSON and on a JSON value that is no object
analysis_raises(response) == ~response.parses \/ response.type # "object"

\* line 237: gemini_output.get("jobs", [])
jobs_of(response) ==
    IF "jobs" \in DOMAIN response.value THEN response.value["jobs"] ELSE <<>>

\* lines 239-256: one row per job, job_id = position from 1, job.get(field)
rows_of(jobs) ==
    [idx \in 1..Len(jobs) |->
        [c \in JobFields \cup {"job_id"} |->
            IF c = "job_id" THEN idx ELSE get(jobs[idx], c)]]

(***************************************************************************)
(* The Ledger (gspread).  A worksheet is its sequence of rows, the first   *)
(* being the header row; cells come back as the text that was appended.    *)
(***************************************************************************)
\* lines 54-79: open the sender's worksheet, creating it with the header row
\* (a worksheet that does not exist yet is the empty sequence of rows)
get_or_create_user_sheet(sheets, user_email) ==
    IF sheets[sheet_title(user_email)] # <<>>
    THEN sheets
    ELSE [sheets EXCEPT ![sheet_title(user_email)] = <<HEADER>>]

\* fault: the last row of the worksheet is not read
get_all_records_short(ws) ==
    IF Len(ws) < 3 THEN <<>>
    ELSE LET column == [h \in Range(ws[1]) |->
                          CHOOSE k \in DOMAIN ws[1] : ws[1][k] = h]
         IN  [i \in 1..(Len(ws) - 2) |->
                [h \in Range(ws[1]) |-> ws[i + 1][column[h]]]]

\* sheet.get_all_records(): one dict per row after the first, keyed by the
\* cells of the first row
get_all_records(ws) ==
    IF Len(ws) < 2 THEN <<>>
    ELSE LET column == [h \in Range(ws[1]) |->
                          CHOOSE k \in DOMAIN ws[1] : ws[1][k] = h]
         IN  [i \in 1..(Len(ws) - 1) |->
                [h \in Range(ws[1]) |-> ws[i + 1][column[h]]]]

\* line 122 (and 126): data = pd.DataFrame(sheet.get_all_records())
read_data(sheets, user_email) ==
    get_all_records(
        get_or_create_user_sheet(sheets, user_email)[sheet_title(user_email)])

\* data.columns of pd.DataFrame(records): no record, no column
columns(df) == IF df = <<>> THEN {} ELSE DOMAIN df[1]

(***************************************************************************)
(* FILTER SENT EMAILS (lines 261-275).                                     *)
(***************************************************************************)
\* fault: the status is compared with the wrong literal
sent_emails_of_miscased(df) ==
    IF "Status" \in columns(df)
    THEN LET is_sent(r) == r["Status"] = "Sent"
             sent == SelectSeq(df, is_sent)
         IN  [i \in 1..Len(sent) |-> sent[i]["Contact Email"]]
    ELSE <<>>

\* lines 264-269: the "Contact Email" of the rows whose "Status" is "SENT"
sent_emails_of(df) ==
    IF "Status" \in columns(df)
    THEN LET is_sent(r) == r["Status"] = "SENT"
             sent == SelectSeq(df, is_sent)
         IN  [i \in 1..Len(sent) |-> sent[i]["Contact Email"]]
    ELSE <<>>

\* Series.str.contains("@", na=False)
str_contains_at(v) == IF v = None THEN FALSE ELSE \E i \in DOMAIN v : v[i] = "@"

\* Series.isin(values), and Python's `x in values` on a list
isin(v, values) == v \in Range(values)

\* fault: the mask drops the test for "@"
FilterSentEmails_unchecked(df, sent) ==
    LET keep(r) == ~(r.apply_email \in Range(sent))
    IN  SelectSeq(df, keep)

\* lines 273-275: boolean mask, then reset_index(drop=True)
FilterSentEmails(df, sent) ==
    LET keep(r) == str_contains_at(r.apply_email) /\ ~isin(r.apply_email, sent)
    IN  SelectSeq(df, keep)

\* lines 292-294: the first row of the filtered frame with the selected job_id
select_job(df, selected_id) ==
    df[CHOOSE i \in DOMAIN df :
          /\ df[i].job_id = selected_id
          /\ \A k \in 1..(i - 1) : df[k].job_id # selected_id]

(***************************************************************************)
(* SEND EMAIL USING SMTP (lines 312-353).                                  *)
(***************************************************************************)
\* fault: the guard never fires
already_sent_never(email_to, sent) == FALSE

\* line 313: the guard of the Send button
already_sent(email_to, sent) == isin(email_to, sent)

\* lines 317-328: the message handed to the Mailer
build_msg(from, email_to, subject, body) ==
    [From |-> from, To |-> email_to, Subject |-> subject, body |-> body,
     attachment |-> "application/pdf"]

Dates == { <<"2024-01-01 10:00">> }      \* datetime.now() to the minute

\* fault: the row records the job's address, not the To field
new_row_of_job(job, email_to, subject, now) ==
    << ToString(job.job_id), job.job_title, job.company, job.apply_email,
       "SENT", "YES", <<"Mail sent | Subject: ">> \o subject, now >>

\* lines 337-346
new_row(job, email_to, subject, now) ==
    << ToString(job.job_id), job.job_title, job.company, email_to,
       "SENT", "YES", <<"Mail sent | Subject: ">> \o subject, now >>

\* the messages the script shows (st.warning, st.error, st.success)
NoNewJobs == <<"No new jobs available to send emails.">>
AlreadySent == <<"This email was already sent earlier.">>
SentAndUpdated == <<"Email sent & sheet updated">>
FailedToSend(e) == <<"Failed to send email: ", e>>
Uncaught == <<"Traceback">>              \* Streamlit's report of an exception

(***************************************************************************)
(* State.                                                                  *)
(***************************************************************************)
VARIABLES
    worksheets,       \* the spreadsheet: worksheet title -> its rows
    outbox,           \* the messages SMTP accepted, in order
    sender_email,     \* per session: the "Your Gmail address" field
    session_state,    \* per session: st.session_state ("job_df")
    pc,               \* per session: where its script run stands
    sent_emails,      \* per session: the sent addresses read from the worksheet
    job_df_filtered,  \* per session: the "Eligible Jobs" of the last run
    editor,           \* per session: job, email_to, subject, body, msg of a send
    report,           \* per session: the messages the last run showed
    effects           \* per session: Mailer and Ledger calls of the last run

vars == << worksheets, outbox, sender_email, session_state, pc, sent_emails,
           job_df_filtered, editor, report, effects >>

\* a worksheet left by earlier use: one address contacted, one row that a
\* user marked by hand
SentRow == << "1", <<"Data Engineer">>, <<"Acme">>, A_X, "SENT", "YES",
              <<"Mail sent | Subject: ", "Application">>, <<"2023-12-31 09:00">> >>
OtherRow == << "2", <<"Data Engineer">>, <<"Bolt">>, B_Y, "SKIPPED", "NO",
               <<"not relevant">>, <<"2023-12-31 09:05">> >>

InitialSheets == { <<>>, <<HEADER, SentRow, OtherRow>> }

NoJobDf == [keys |-> {}, job_df |-> <<>>]

Init ==
    /\ worksheets \in [Titles -> InitialSheets]
    /\ outbox = <<>>
    /\ sender_email \in [Sessions -> Senders]
    /\ sender_email[1] = V_K
    /\ session_state = [s \in Sessions |-> NoJobDf]
    /\ pc = [s \in Sessions |-> "idle"]
    /\ sent_emails = [s \in Sessions |-> <<>>]
    /\ job_df_filtered = [s \in Sessions |-> <<>>]
    /\ editor = [s \in Sessions |-> <<>>]
    /\ report = [s \in Sessions |-> <<>>]
    /\ effects = [s \in Sessions |-> <<>>]

(***************************************************************************)
(* One script run, from the top (line 120) to the point it stops.  `report`*)
(* holds what lines 258-353 show, or the traceback of a run that raised.   *)
(***************************************************************************)
title(s) == sheet_title(sender_email[s])

\* line 120: the spreadsheet after get_or_create_user_sheet
Opened(s) == get_or_create_user_sheet(worksheets, sender_email[s])

\* fault: the sheet is read once per session and the result kept
ReadCached(s) == sent_emails[s]

\* lines 122 and 264-269: sent_emails, from the data read in this run
Read(s) == sent_emails_of(read_data(worksheets, sender_email[s]))

\* lines 261-275 on the session's job_df
Eligible(state, sent) ==
    IF "job_df" \in state.keys THEN FilterSentEmails(state.job_df, sent)
    ELSE <<>>

\* lines 280-282
Warning(state, eligible) ==
    IF "job_df" \in state.keys /\ eligible = <<>> THEN <<NoNewJobs>> ELSE <<>>

\* a run that sends nothing: the sheet is opened and read, the eligible jobs
\* are shown
Show(s, state) ==
    LET sent == Read(s)
        eligible == Eligible(state, sent)
    IN  /\ worksheets' = Opened(s)
        /\ sent_emails' = [sent_emails EXCEPT ![s] = sent]
        /\ session_state' = [session_state EXCEPT ![s] = state]
        /\ job_df_filtered' = [job_df_filtered EXCEPT ![s] = eligible]
        /\ report' = [report EXCEPT ![s] = Warning(state, eligible)]
        /\ editor' = [editor EXCEPT ![s] = <<>>]
        /\ effects' = [effects EXCEPT ![s] = <<>>]
        /\ pc' = [pc EXCEPT ![s] = "idle"]
        /\ UNCHANGED << outbox, sender_email >>

\* a run with no button pressed (a widget interaction, or the run that
\* st.rerun() asks for at line 350), and the run of a Send click that stops at
\* line 282 because nothing is eligible any more
Rerun(s) ==
    /\ pc[s] \in {"idle", "rerun"}
    /\ Show(s, session_state[s])

\* lines 125-127: the Refresh Sheet button reads the sheet once more
Refresh(s) ==
    /\ pc[s] = "idle"
    /\ Show(s, session_state[s])

\* lines 226-256: the Analyze button, the Extractor answering r
Analyze(s, r) ==
    /\ pc[s] = "idle"
    /\ ~analysis_raises(r)
    /\ Show(s, [keys |-> {"job_df"}, job_df |-> rows_of(jobs_of(r))])

\* lines 236-237 raising: the run ends there, nothing below is rendered
AnalyzeRaises(s, r) ==
    /\ pc[s] = "idle"
    /\ analysis_raises(r)
    /\ worksheets' = Opened(s)
    /\ sent_emails' = [sent_emails EXCEPT ![s] = Read(s)]
    /\ job_df_filtered' = [job_df_filtered EXCEPT ![s] = <<>>]
    /\ report' = [report EXCEPT ![s] = <<Uncaught>>]
    /\ editor' = [editor EXCEPT ![s] = <<>>]
    /\ effects' = [effects EXCEPT ![s] = <<>>]
    /\ UNCHANGED << outbox, sender_email, session_state, pc >>

(***************************************************************************)
(* The run of a click on Send Email.  The button is on the page only if    *)
(* the last run rendered it (it got past line 282).                        *)
(***************************************************************************)
SendClicked(s) == pc[s] = "idle" /\ job_df_filtered[s] # <<>>

InFlight == Cardinality({t \in Sessions : pc[t] = "smtp"})

\* lines 287-307: the selected job and the editor's fields; the To field
\* holds the job's apply_email unless the user typed another address
Forms(eligible) ==
    UNION { LET job == select_job(eligible, id)
            IN  { [job |-> job, email_to |-> to,
                   subject |-> job.email_subject,
                   body |-> job.email_body_draft] :
                  to \in {job.apply_email} \cup ToEdits } :
            id \in {eligible[i].job_id : i \in DOMAIN eligible} }

SendRun(s, sent, eligible, form, shown, next) ==
    /\ worksheets' = Opened(s)
    /\ sent_emails' = [sent_emails EXCEPT ![s] = sent]
    /\ job_df_filtered' = [job_df_filtered EXCEPT ![s] = eligible]
    /\ editor' = [editor EXCEPT ![s] = <<form>>]
    /\ report' = [report EXCEPT ![s] = shown]
    /\ effects' = [effects EXCEPT ![s] = <<>>]
    /\ pc' = [pc EXCEPT ![s] = next]
    /\ UNCHANGED << outbox, sender_email, session_state >>

\* lines 313-315: st.error and st.stop
SendDuplicate(s) ==
    /\ SendClicked(s)
    /\ LET sent == Read(s)
           eligible == Eligible(session_state[s], sent)
       IN  \E form \in Forms(eligible) :
              /\ already_sent(form.email_to, sent)
              /\ SendRun(s, sent, eligible, form, <<AlreadySent>>, "idle")

\* lines 317-328: past the guard, the message is built
SendBuilds(s) ==
    /\ SendClicked(s)
    /\ Len(outbox) + InFlight < MaxMails
    /\ LET sent == Read(s)
           eligible == Eligible(session_state[s], sent)
       IN  \E form \in Forms(eligible) :
              /\ ~already_sent(form.email_to, sent)
              /\ SendRun(s, sent, eligible, form, <<>>, "smtp")

\* lines 331-334 succeed
MailerSends(s) ==
    /\ pc[s] = "smtp"
    /\ outbox' = Append(outbox,
          build_msg(sender_email[s], editor[s][1].email_to,
                    editor[s][1].subject, editor[s][1].body))
    /\ effects' = [effects EXCEPT ![s] = Append(@, "server.send_message")]
    /\ pc' = [pc EXCEPT ![s] = "append"]
    /\ UNCHANGED << worksheets, sender_email, session_state, sent_emails,
                    job_df_filtered, editor, report >>

\* fault: the row is appended although the Mailer raised
MailerFailsAndAppends(s) ==
    /\ pc[s] = "smtp"
    /\ \E now \in Dates :
          worksheets' = [worksheets EXCEPT ![title(s)] =
              Append(@, new_row(editor[s][1].job, editor[s][1].email_to,
                                editor[s][1].subject, now))]
    /\ effects' = [effects EXCEPT ![s] = Append(@, "server.send_message raised")]
    /\ report' = [report EXCEPT ![s] = <<FailedToSend("SMTPException")>>]
    /\ pc' = [pc EXCEPT ![s] = "idle"]
    /\ UNCHANGED << outbox, sender_email, session_state, sent_emails,
                    job_df_filtered, editor >>

\* lines 331-334 raise: line 353
MailerFails(s) ==
    /\ pc[s] = "smtp"
    /\ effects' = [effects EXCEPT ![s] = Append(@, "server.send_message raised")]
    /\ report' = [report EXCEPT ![s] = <<FailedToSend("SMTPException")>>]
    /\ pc' = [pc EXCEPT ![s] = "idle"]
    /\ UNCHANGED << worksheets, outbox, sender_email, session_state, sent_emails,
                    job_df_filtered, editor >>

\* lines 337-350: the row is appended, st.success, st.rerun
LedgerAppends(s) ==
    /\ pc[s] = "append"
    /\ \E now \in Dates :
          worksheets' = [worksheets EXCEPT ![title(s)] =
              Append(@, new_row(editor[s][1].job, editor[s][1].email_to,
                                editor[s][1].subject, now))]
    /\ effects' = [effects EXCEPT ![s] = Append(@, "sheet.append_row")]
    /\ report' = [report EXCEPT ![s] = <<SentAndUpdated>>]
    /\ pc' = [pc EXCEPT ![s] = "rerun"]
    /\ UNCHANGED << outbox, sender_email, session_state, sent_emails,
                    job_df_filtered, editor >>

\* line 347 raises: line 353
LedgerAppendFails(s) ==
    /\ pc[s] = "append"
    /\ effects' = [effects EXCEPT ![s] = Append(@, "sheet.append_row raised")]
    /\ report' = [report EXCEPT ![s] = <<FailedToSend("APIError")>>]
    /\ pc' = [pc EXCEPT ![s] = "idle"]
    /\ UNCHANGED << worksheets, outbox, sender_email, session_state, sent_emails,
                    job_df_filtered, editor >>

Step(s) ==
    \/ Rerun(s)
    \/ Refresh(s)
    \/ \E r \in ExtractorResponses : Analyze(s, r)
    \/ \E r \in ExtractorResponses : AnalyzeRaises(s, r)
    \/ SendDuplicate(s)
    \/ SendBuilds(s)
    \/ MailerSends(s)
    \/ MailerFails(s)
    \/ LedgerAppends(s)
    \/ LedgerAppendFails(s)

Next == \E s \in Sessions : Step(s)

Spec == Init /\ [][Next]_vars

\* one session only: the other never runs the script
NextSingle == Step(1)

SpecSingle == Init /\ [][NextSingle]_vars

(***************************************************************************)
(* Properties.  The Ledger is described here by the worksheet rows         *)
(* themselves: by the fixed column schema of line 68, cell 4 of a row is   *)
(* its Contact Email and cell 5 its Status.                                *)
(***************************************************************************)
Partition(u) == worksheets[sheet_title(u)]

SentContacts(ws) == {ws[i][4] : i \in {k \in 2..Len(ws) : ws[k][5] = "SENT"}}

MailerCalled(s) == "server.send_message" \in Range(effects[s])

\* the run of session s got to the pressed Send button with these fields
Request(s) == editor[s][1]

\* C1: a send request whose email_to is in the sent_set read for it ends in
\* the duplicate-send error with no Mailer call and no Ledger append
C1_DuplicateSendRefused ==
    \A s \in Sessions :
        (editor[s] # <<>> /\ Request(s).email_to \in Range(sent_emails[s]))
        => /\ report[s] = <<AlreadySent>>
           /\ pc[s] = "idle"
           /\ effects[s] = <<>>

C1_Witness ==
    \E s \in Sessions :
        /\ editor[s] # <<>>
        /\ Request(s).email_to \in Range(sent_emails[s])
        /\ report[s] = <<AlreadySent>>

\* the last thing the run of s did to the Mailer or the Ledger in this step
Did(s, effect) ==
    /\ effects'[s] # effects[s]
    /\ effects'[s] # <<>>
    /\ effects'[s][Len(effects'[s])] = effect

\* C2: a successful send is one Mailer call followed by one Ledger append;
\* when the Mailer fails nothing is appended, the Ledger is unchanged and the
\* failure is reported
C2_MailerThenLedger ==
    /\ [](\A s \in Sessions :
            /\ report[s] = <<SentAndUpdated>>
               => effects[s] = <<"server.send_message", "sheet.append_row">>
            /\ "server.send_message raised" \in Range(effects[s])
               => /\ effects[s] = <<"server.send_message raised">>
                  /\ report[s] = <<FailedToSend("SMTPException")>>
                  /\ pc[s] = "idle")
    /\ [][\A s \in Sessions :
            /\ Did(s, "server.send_message")
               => /\ Len(outbox') = Len(outbox) + 1
                  /\ worksheets' = worksheets
            /\ Did(s, "server.send_message raised")
               => /\ outbox' = outbox
                  /\ worksheets' = worksheets
            /\ Did(s, "sheet.append_row")
               => /\ outbox' = outbox
                  /\ Len(worksheets'[title(s)]) = Len(worksheets[title(s)]) + 1
                  /\ \A t \in Titles \ {title(s)} :
                        worksheets'[t] = worksheets[t]]_vars

C2_Witness ==
    \E s \in Sessions :
        /\ report[s] = <<SentAndUpdated>>
        /\ effects[s] = <<"server.send_message", "sheet.append_row">>
        /\ outbox # <<>>

\* the indices of the records of a batch that reconciliation must keep
Kept(df, sent_set) ==
    {i \in DOMAIN df : "@" \in Range(df[i].apply_email)
                       /\ df[i].apply_email \notin sent_set}

Reconciled(s) == "job_df" \in session_state[s].keys /\ report[s] # <<Uncaught>>

\* C3: reconciliation returns, in batch order, exactly the records whose
\* apply_email contains "@" and is not in sent_set, the Contact Emails of the
\* sender's SENT rows (none without rows); the records keep their job_id, and
\* records sharing an apply_email are kept or dropped together
C3_Reconciliation ==
    \A s \in Sessions :
        /\ Reconciled(s) /\ pc[s] # "rerun"
           => /\ Range(sent_emails[s]) = SentContacts(worksheets[title(s)])
              /\ Len(worksheets[title(s)]) < 2 => sent_emails[s] = <<>>
        /\ Reconciled(s)
           => LET df == session_state[s].job_df
                  kept == Kept(df, Range(sent_emails[s]))
                  out == job_df_filtered[s]
              IN  /\ Len(out) = Cardinality(kept)
                  /\ \A i \in kept :
                        /\ out[Cardinality({j \in kept : j <= i})] = df[i]
                        /\ df[i].job_id = i
                  /\ \A i, j \in DOMAIN df :
                        df[i].apply_email = df[j].apply_email
                        => (i \in kept <=> j \in kept)

C3_Witness ==
    \E s \in Sessions :
        /\ Reconciled(s)
        /\ Len(session_state[s].job_df) = 4
        /\ Len(job_df_filtered[s]) = 2
        /\ job_df_filtered[s][1].job_id = 1
        /\ job_df_filtered[s][2].job_id = 4
        /\ B_Y \in Range(sent_emails[s])

\* C4: with one session, every reachable state has at most one SENT row per
\* contact email in the sender's partition
C4_OneSentRowPerContact ==
    \A u \in Senders :
        \A i, j \in 2..Len(Partition(u)) :
            /\ Partition(u)[i][5] = "SENT"
            /\ Partition(u)[j][5] = "SENT"
            /\ Partition(u)[i][4] = Partition(u)[j][4]
            => i = j

\* two sends recorded, the first of them to an edited To address
C4_Witness ==
    /\ Len(outbox) = 2
    /\ \E i, j \in 2..Len(Partition(V_K)) :
          /\ i < j
          /\ Partition(V_K)[i][5] = "SENT"
          /\ Partition(V_K)[i][3] = <<"Acme">>
          /\ Partition(V_K)[i][4] = B_Y
          /\ Partition(V_K)[j][5] = "SENT"
          /\ Partition(V_K)[j][4] = A_X

\* C5 as stated: for one sender identity, two sessions never both get a
\* message with the same To address accepted by the Mailer
C5_NoDoubleSendAcrossSessions ==
    \A s, t \in Sessions :
        /\ s # t
        /\ sender_email[s] = sender_email[t]
        /\ MailerCalled(s)
        /\ MailerCalled(t)
        => Request(s).email_to # Request(t).email_to

\* C5 as amended: a request goes on to the Mailer only if its To address had
\* no SENT row in the sender's partition when the request read it, and the
\* Mailer is handed nothing but the message of such a request
C5_SendsOnlyUnrecordedAddress ==
    [][/\ \A s \in Sessions :
            pc[s] = "idle" /\ pc'[s] = "smtp"
            => Request(s)'.email_to \notin SentContacts(worksheets[title(s)])
       /\ outbox' # outbox
          => \E s \in Sessions :
                /\ pc[s] = "smtp"
                /\ pc'[s] = "append"
                /\ Len(outbox') = Len(outbox) + 1
                /\ outbox'[Len(outbox')].To = Request(s).email_to
                /\ outbox'[Len(outbox')].From = sender_email[s]]_vars

\* two sessions of one sender, both past the guard with the same To address,
\* both messages accepted
C5_Witness ==
    \E s, t \in Sessions :
        /\ s # t
        /\ sender_email[s] = sender_email[t]
        /\ pc[s] = "append"
        /\ pc[t] = "append"
        /\ Request(s).email_to = Request(t).email_to
        /\ Len(outbox) = 2

\* the text of a message before the exception it quotes
ErrorClass(message) == message[1]

\* C6 as stated: when the Mailer succeeded and the Ledger append failed, the
\* error shown is of another class than the one shown when the Mailer fails
C6_DistinctLedgerWriteError ==
    \A s \in Sessions :
        effects[s] = <<"server.send_message", "sheet.append_row raised">>
        => /\ report[s] # <<>>
           /\ ErrorClass(report[s][1]) # ErrorClass(FailedToSend("SMTPException"))

\* C7: a send whose Mailer call and Ledger append succeed adds exactly one
\* row, SENT, with Contact Email email_to, to the sender's partition; rows
\* are never removed; and every later reconciliation for that sender leaves
\* out every record with that apply_email
C7_RecordedThenExcluded ==
    /\ [][/\ \A s \in Sessions :
               Did(s, "sheet.append_row")
               => LET new == worksheets'[title(s)]
                  IN  /\ Len(new) = Len(worksheets[title(s)]) + 1
                      /\ new[Len(new)][4] = Request(s).email_to
                      /\ new[Len(new)][5] = "SENT"
          /\ \A t \in Titles :
               /\ Len(worksheets'[t]) >= Len(worksheets[t])
               /\ \A i \in 1..Len(worksheets[t]) :
                     worksheets'[t][i] = worksheets[t][i]]_vars
    /\ [](\A s \in Sessions :
            Reconciled(s) /\ pc[s] = "idle"
            => \A k \in DOMAIN job_df_filtered[s] :
                  job_df_filtered[s][k].apply_email
                      \notin SentContacts(worksheets[title(s)]))

C7_Witness ==
    \E s \in Sessions :
        /\ Reconciled(s)
        /\ pc[s] = "idle"
        /\ Len(outbox) = 1
        /\ LET ws == worksheets[title(s)]
               df == session_state[s].job_df
           IN  /\ Len(ws) >= 2
               /\ ws[Len(ws)][8] \in Dates
               /\ ws[Len(ws)][4] = outbox[1].To
               /\ \E i \in DOMAIN df : df[i].apply_email = outbox[1].To
               /\ job_df_filtered[s] # <<>>
               /\ \A k \in DOMAIN job_df_filtered[s] :
                     job_df_filtered[s][k].apply_email # outbox[1].To

\* the Extractor's response has the schema of lines 173-189
Conforms(r) ==
    /\ r.parses
    /\ r.type = "object"
    /\ "jobs" \in DOMAIN r.value
    /\ \A i \in DOMAIN r.value["jobs"] :
          JobFields \subseteq DOMAIN r.value["jobs"][i]

\* C8 as stated: an Analyze run whose Extractor response does not conform
\* ends in an error, stores no batch and leaves the session's batch and the
\* Ledger as they were
C8_MalformedExtractionRejected ==
    [][\A s \in Sessions : \A r \in ExtractorResponses :
          (~Conforms(r) /\ (Analyze(s, r) \/ AnalyzeRaises(s, r)))
          => /\ report'[s] = <<Uncaught>>
             /\ session_state'[s] = session_state[s]
             /\ worksheets' = Opened(s)]_vars

\* C9 as stated: a Ledger append made for one sender changes neither the
\* partition nor the sent_set of any other sender identity
C9_PartitionsIndependent ==
    [][\A s \in Sessions :
          Did(s, "sheet.append_row")
          => \A u \in {sender_email[t] : t \in Sessions} \ {sender_email[s]} :
                /\ Partition(u)' = Partition(u)
                /\ SentContacts(Partition(u))' = SentContacts(Partition(u))]_vars

\* C10: the row a send appends has status SENT and, as Contact Email, the To
\* address of the message that send handed to the Mailer; the job's own
\* apply_email, when it differs, does not enter the sent_set
C10_RowRecordsToAddress ==
    [][\A s \in Sessions :
          Did(s, "sheet.append_row")
          => LET old == worksheets[title(s)]
                 new == worksheets'[title(s)]
                 row == new[Len(new)]
                 msg == outbox[Len(outbox)]
             IN  /\ row[4] = msg.To
                 /\ row[5] = "SENT"
                 /\ msg.To = Request(s).email_to
                 /\ SentContacts(new) \ SentContacts(old) \subseteq {msg.To}
                 /\ Request(s).job.apply_email # msg.To
                    /\ Request(s).job.apply_email \notin SentContacts(old)
                    => Request(s).job.apply_email \notin SentContacts(new)]_vars

\* a send to an edited To address has been recorded
C10_Witness ==
    \E s \in Sessions :
        /\ pc[s] = "rerun"
        /\ Request(s).job.apply_email = A_X
        /\ Request(s).email_to = B_Y
        /\ LET ws == worksheets[title(s)]
           IN  /\ ws[Len(ws)][4] = B_Y
               /\ ws[Len(ws)][5] = "SENT"
               /\ A_X \notin SentContacts(ws)

=============================================================================
